---- MODULE Spec2Model ----
(***************************************************************************)
(* A model of the totp-sos library (src/src/lib.rs, src/src/error.rs).     *)
(*                                                                         *)
(* The library is a value type, TOTP, with three constructors (new,        *)
(* from_secret_base32, from_url) and read-only operations on it.  The      *)
(* model holds one entity (totp), the outcome of the last call (out) and   *)
(* the build profile (overflow_checks: Rust's integer overflow either      *)
(* panics or wraps, depending on the profile the crate is compiled with).  *)
(*                                                                         *)
(* Representation                                                          *)
(*   u64        a sequence of 8 bytes, big endian, so that 64-bit          *)
(*              arithmetic keeps its width; `step` is a u64 in the code    *)
(*              and a small natural number here (all arithmetic against    *)
(*              it is by one limb)                                         *)
(*   String     a sequence of one-character strings                        *)
(*   Vec<u8>    a sequence of 0..255                                       *)
(*   Option<T>  <<>> for None, <<x>> for Some(x)                           *)
(*   a call's outcome   Ok(v), Err(<<kind, payload>>) or Panic(reason)     *)
(***************************************************************************)
EXTENDS Integers, Sequences, FiniteSets, TLC

VARIABLES totp, out, overflow_checks

vars == <<totp, out, overflow_checks>>

None == <<>>

Some(x) == <<x>>

IsSome(o) == Len(o) = 1

Ok(v) == [kind |-> "ok", val |-> v]

Err(e, p) == [kind |-> "err", val |-> <<e, p>>]

Panic(why) == [kind |-> "panic", val |-> why]

IsOk(r) == r.kind = "ok"

IsErr(r, e) == r.kind = "err" /\ r.val[1] = e

IsPanic(r) == r.kind = "panic"

\* The sequence <<F(1), ..., F(n)>>, as a tuple.
Tabulate(n, F(_)) == [i \in 1..n |-> F(i)] \o <<>>

\* The concatenation of pieces[lo], ..., pieces[hi].
RECURSIVE FlattenRange(_, _, _)
FlattenRange(pieces, lo, hi) ==
    IF lo > hi THEN <<>>
    ELSE IF lo = hi THEN pieces[lo]
    ELSE FlattenRange(pieces, lo, (lo + hi) \div 2)
         \o FlattenRange(pieces, ((lo + hi) \div 2) + 1, hi)

Flatten(pieces) == FlattenRange(pieces, 1, Len(pieces))

Least(set) == CHOOSE i \in set : \A j \in set : i <= j

Greatest(set) == CHOOSE i \in set : \A j \in set : i >= j

(***************************************************************************)
(* 64-bit unsigned arithmetic on 8 big-endian bytes.                       *)
(***************************************************************************)
U64Zero == <<0, 0, 0, 0, 0, 0, 0, 0>>

U64Max == <<255, 255, 255, 255, 255, 255, 255, 255>>

\* The u64 of a natural number below 2^31.
U64(n) ==
    Tabulate(8, LAMBDA i : IF i < 5 THEN 0 ELSE (n \div (256 ^ (8 - i))) % 256)

\* x / d and x % d for a one-limb divisor d > 0: long division from the top byte.
DivMod(x, d) ==
    LET rem[i \in 0..8] == IF i = 0 THEN 0 ELSE (rem[i - 1] * 256 + x[i]) % d
    IN  [q |-> Tabulate(8, LAMBDA i : (rem[i - 1] * 256 + x[i]) \div d),
         r |-> rem[8]]

\* x + n: the wrapped sum and whether it left the 64 bits.
AddSmall(x, n) ==
    LET c[i \in 1..9] == IF i = 9 THEN n ELSE (x[i] + c[i + 1]) \div 256
    IN  [v |-> Tabulate(8, LAMBDA i : (x[i] + c[i + 1]) % 256),
         overflow |-> c[1] > 0]

\* x - n: the wrapped difference and whether it went below zero.
SubSmall(x, n) ==
    LET b[i \in 1..9] == IF i = 9 THEN n ELSE -((x[i] - b[i + 1]) \div 256)
    IN  [v |-> Tabulate(8, LAMBDA i : (x[i] - b[i + 1]) % 256),
         overflow |-> b[1] > 0]

\* x * m: the wrapped product and whether it left the 64 bits.
MulSmall(x, m) ==
    LET c[i \in 1..9] == IF i = 9 THEN 0 ELSE (x[i] * m + c[i + 1]) \div 256
    IN  [v |-> Tabulate(8, LAMBDA i : (x[i] * m + c[i + 1]) % 256),
         overflow |-> c[1] > 0]

\* x < y, most significant byte first.
U64Lt(x, y) ==
    \E i \in 1..8 : x[i] < y[i] /\ \A j \in 1..(i - 1) : x[j] = y[j]

U64Le(x, y) == x = y \/ U64Lt(x, y)

(***************************************************************************)
(* Text.                                                                   *)
(***************************************************************************)
DigitChars == <<"0", "1", "2", "3", "4", "5", "6", "7", "8", "9">>

IsDigitChar(c) == \E d \in 1..10 : DigitChars[d] = c

DigitValue(c) == (CHOOSE d \in 1..10 : DigitChars[d] = c) - 1

\* str::contains(char)
Contains(s, c) == \E i \in 1..Len(s) : s[i] = c

\* The decimal rendering of a natural number, no padding ({} of an integer).
RECURSIVE Decimal(_)
Decimal(n) ==
    IF n < 10 THEN <<DigitChars[n + 1]>>
    ELSE Append(Decimal(n \div 10), DigitChars[(n % 10) + 1])

\* format!("{1:00$}", width, n): the decimal rendering, left-padded with '0' to
\* at least `width` characters (a longer rendering is not cut).
RECURSIVE ZeroPad(_, _)
ZeroPad(s, width) == IF Len(s) >= width THEN s ELSE ZeroPad(<<"0">> \o s, width)

\* constant_time_eq::constant_time_eq(a, b): false on a length mismatch, else the
\* OR of the pairwise differences accumulated over the whole length.
RECURSIVE DiffAcc(_, _, _)
DiffAcc(a, b, i) ==
    IF i > Len(a) THEN 0
    ELSE (IF a[i] = b[i] THEN 0 ELSE 1) + DiffAcc(a, b, i + 1)

constant_time_eq(a, b) == Len(a) = Len(b) /\ DiffAcc(a, b, 1) = 0

(***************************************************************************)
(* Algorithm and the keyed hash.                                           *)
(***************************************************************************)
Algorithms == {"SHA1", "SHA256", "SHA512"}

\* The MAC's length in bytes: HMAC-SHA1 20, HMAC-SHA256 32, HMAC-SHA512 64.
MacLen(algorithm) ==
    CASE algorithm = "SHA1" -> 20
      [] algorithm = "SHA256" -> 32
      [] algorithm = "SHA512" -> 64

RECURSIVE WeightedSum(_, _)
WeightedSum(bytes, i) ==
    IF i > Len(bytes) THEN 0 ELSE bytes[i] * (i + 2) + WeightedSum(bytes, i + 1)

\* Algorithm::sign(key, data): the HMAC of the hmac, sha1 and sha2 crates, which is
\* not code of this repository.  It is modelled as a fixed function of
\* (algorithm, key, data) with the real output length; the library relies on
\* nothing else (it never fails: new_from_slice accepts a key of any length).
AlgorithmSign(algorithm, key, data) ==
    LET h == WeightedSum(key, 1) * 3 + WeightedSum(data, 1) * 7 + MacLen(algorithm)
    IN  Tabulate(MacLen(algorithm),
                 LAMBDA i : ((h + 11 * i) * ((h % 89) + i * i + 1) + (h \div 5)) % 256)

(***************************************************************************)
(* The TOTP entity.                                                        *)
(***************************************************************************)
\* A comparison of every field, as a derived PartialEq would make it.
TotpEq_derived(self, other) == self = other

\* impl PartialEq for TOTP
TotpEq(self, other) == constant_time_eq(self.secret, other.secret)

\* TOTP::new without the validation of the issuer.
new_unchecked_issuer(algorithm, digits, skew, step, secret, account_name, issuer) ==
    IF ~(digits \in 6..8) THEN Err("InvalidDigits", digits)
    ELSE IF Len(secret) < 16 THEN Err("SecretTooSmall", Len(secret) * 8)
    ELSE IF Contains(account_name, ":") THEN Err("AccountName", account_name)
    ELSE Ok([algorithm |-> algorithm, digits |-> digits, skew |-> skew,
             step |-> step, secret |-> secret, account_name |-> account_name,
             issuer |-> issuer])

\* TOTP::new: the four validations in the code's order, then the entity with
\* every field as given.
new(algorithm, digits, skew, step, secret, account_name, issuer) ==
    IF ~(digits \in 6..8) THEN Err("InvalidDigits", digits)
    ELSE IF Len(secret) < 16 THEN Err("SecretTooSmall", Len(secret) * 8)
    ELSE IF Contains(account_name, ":") THEN Err("AccountName", account_name)
    ELSE IF IsSome(issuer) /\ Contains(issuer[1], ":") THEN Err("Issuer", issuer[1])
    ELSE Ok([algorithm |-> algorithm, digits |-> digits, skew |-> skew,
             step |-> step, secret |-> secret, account_name |-> account_name,
             issuer |-> issuer])

\* TOTP::sign on the time itself, the division by the step forgotten.
sign_undivided(self, time) ==
    IF self.step = 0 THEN Panic("attempt to divide by zero")
    ELSE Ok(AlgorithmSign(self.algorithm, self.secret, time))

\* TOTP::sign: the MAC of the big-endian bytes of time / step (a division by zero
\* panics in every profile).
sign(self, time) ==
    IF self.step = 0 THEN Panic("attempt to divide by zero")
    ELSE Ok(AlgorithmSign(self.algorithm, self.secret, DivMod(time, self.step).q))

\* The truncation with the offset read from the high four bits of the last byte.
Truncate_high_bits(mac, digits) ==
    LET offset == mac[Len(mac)] \div 16
        value  == (mac[offset + 1] % 128) * 16777216 + mac[offset + 2] * 65536
                  + mac[offset + 3] * 256 + mac[offset + 4]
    IN  ZeroPad(Decimal(value % (10 ^ digits)), digits)

\* The dynamic truncation of TOTP::generate on a MAC.
Truncate(mac, digits) ==
    LET offset == mac[Len(mac)] % 16
        value  == (mac[offset + 1] % 128) * 16777216 + mac[offset + 2] * 65536
                  + mac[offset + 3] * 256 + mac[offset + 4]
    IN  ZeroPad(Decimal(value % (10 ^ digits)), digits)

\* TOTP::generate
generate(self, time) ==
    LET mac == sign(self, time)
    IN  IF IsPanic(mac) THEN mac ELSE Ok(Truncate(mac.val, self.digits))

\* TOTP::next_step: (time / step + 1) * step in u64.
next_step(self, time) ==
    IF self.step = 0 THEN Panic("attempt to divide by zero")
    ELSE LET step == DivMod(time, self.step).q
             succ == AddSmall(step, 1)
             prod == MulSmall(succ.v, self.step)
         IN  IF succ.overflow /\ overflow_checks
                 THEN Panic("attempt to add with overflow")
             ELSE IF prod.overflow /\ overflow_checks
                 THEN Panic("attempt to multiply with overflow")
             ELSE Ok(prod.v)

\* system_time() with the clock's failure taken for the epoch.
system_time_unwrapped(clock) == Ok(clock.secs)

\* system_time(): the clock's seconds since the epoch, or the Time error when
\* the clock reads before the epoch.
system_time(clock) == IF clock.ok THEN Ok(clock.secs) ELSE Err("Time", <<>>)

\* TOTP::ttl returning the seconds elapsed in the step, not those that remain.
ttl_elapsed(self, clock) ==
    LET t == system_time(clock)
    IN  IF ~IsOk(t) THEN t
        ELSE IF self.step = 0
            THEN Panic("attempt to calculate the remainder with a divisor of zero")
        ELSE Ok(U64(DivMod(t.val, self.step).r))

\* TOTP::ttl
ttl(self, clock) ==
    LET t == system_time(clock)
    IN  IF ~IsOk(t) THEN t
        ELSE IF self.step = 0
            THEN Panic("attempt to calculate the remainder with a divisor of zero")
        ELSE Ok(U64(self.step - DivMod(t.val, self.step).r))

\* The loop of TOTP::check from candidate i on, n candidates in all.
RECURSIVE CheckFrom(_, _, _, _, _)
CheckFrom(self, token, basestep, i, n) ==
    IF i >= n THEN Ok(FALSE)
    ELSE LET sum  == AddSmall(basestep, i)
             prod == MulSmall(sum.v, self.step)
         IN  IF sum.overflow /\ overflow_checks
                 THEN Panic("attempt to add with overflow")
             ELSE IF prod.overflow /\ overflow_checks
                 THEN Panic("attempt to multiply with overflow")
             ELSE IF constant_time_eq(generate(self, prod.v).val, token)
                 THEN Ok(TRUE)
             ELSE CheckFrom(self, token, basestep, i + 1, n)

\* TOTP::check: basestep in u64, the candidate count skew * 2 + 1 in u8.
check(self, token, time) ==
    IF self.step = 0 THEN Panic("attempt to divide by zero")
    ELSE LET basestep == SubSmall(DivMod(time, self.step).q, self.skew)
             twice    == self.skew * 2
         IN  IF basestep.overflow /\ overflow_checks
                 THEN Panic("attempt to subtract with overflow")
             ELSE IF twice > 255 /\ overflow_checks
                 THEN Panic("attempt to multiply with overflow")
             ELSE CheckFrom(self, token, basestep.v, 0, (twice % 256) + 1)

\* TOTP::next_step_current
next_step_current(self, clock) ==
    LET t == system_time(clock)
    IN  IF ~IsOk(t) THEN t ELSE next_step(self, t.val)

\* TOTP::generate_current
generate_current(self, clock) ==
    LET t == system_time(clock)
    IN  IF ~IsOk(t) THEN t ELSE generate(self, t.val)

\* TOTP::check_current
check_current(self, token, clock) ==
    LET t == system_time(clock)
    IN  IF ~IsOk(t) THEN t ELSE check(self, token, t.val)

(***************************************************************************)
(* Characters.  A character is a one-character string; Printable lists the *)
(* printable ASCII characters in code order, from 32 (space) to 126 (~);    *)
(* "GRAVE" stands for the grave accent (96), which no TLA+ string can hold.*)
(***************************************************************************)
Printable == <<
    " ", "!", "\"", "#", "$", "%", "&", "'", "(", ")", "*", "+",
    ",", "-", ".", "/", "0", "1", "2", "3", "4", "5", "6", "7",
    "8", "9", ":", ";", "<", "=", ">", "?", "@", "A", "B", "C",
    "D", "E", "F", "G", "H", "I", "J", "K", "L", "M", "N", "O",
    "P", "Q", "R", "S", "T", "U", "V", "W", "X", "Y", "Z", "[",
    "\\", "]", "^", "_", "GRAVE", "a", "b", "c", "d", "e", "f", "g",
    "h", "i", "j", "k", "l", "m", "n", "o", "p", "q", "r", "s",
    "t", "u", "v", "w", "x", "y", "z", "{", "|", "}", "~">>

Ord(c) == 31 + (CHOOSE i \in 1..Len(Printable) : Printable[i] = c)

Chr(n) == Printable[n - 31]

\* What a lossy UTF-8 decoding puts in the place of an invalid byte (U+FFFD).
Replacement == "U+FFFD"

IsAscii(c) == \E i \in 1..Len(Printable) : Printable[i] = c

IsUpper(c) == IsAscii(c) /\ Ord(c) \in 65..90

IsLower(c) == IsAscii(c) /\ Ord(c) \in 97..122

IsAlpha(c) == IsUpper(c) \/ IsLower(c)

IsAlnum(c) == IsAlpha(c) \/ IsDigitChar(c)

to_ascii_uppercase(c) == IF IsLower(c) THEN Chr(Ord(c) - 32) ELSE c

to_ascii_lowercase(c) == IF IsUpper(c) THEN Chr(Ord(c) + 32) ELSE c

HexDigits == <<"0", "1", "2", "3", "4", "5", "6", "7",
               "8", "9", "A", "B", "C", "D", "E", "F">>

\* The value of a hexadecimal digit of either case, -1 for any other character.
HexValue(c) ==
    LET u == to_ascii_uppercase(c)
    IN  IF \E i \in 1..16 : HexDigits[i] = u
        THEN (CHOOSE i \in 1..16 : HexDigits[i] = u) - 1
        ELSE -1

\* Whether s holds a percent escape at i: '%' and two hexadecimal digits.
IsEscapeAt(s, i) ==
    /\ i + 2 <= Len(s)
    /\ s[i] = "%"
    /\ HexValue(s[i + 1]) >= 0
    /\ HexValue(s[i + 2]) >= 0

EscapeByte(s, i) == HexValue(s[i + 1]) * 16 + HexValue(s[i + 2])

\* s[from..], the empty string past the end.
Tail_(s, from) == SubSeq(s, from, Len(s))

\* The index of the first c in s at or after from, 0 when there is none.
IndexFrom(s, c, from) ==
    IF \E i \in from..Len(s) : s[i] = c
    THEN Least({i \in from..Len(s) : s[i] = c})
    ELSE 0

\* str::trim_start_matches(char): s from its first character that is not c.
trim_start_matches(s, c) ==
    IF \E i \in 1..Len(s) : s[i] # c
    THEN Tail_(s, Least({i \in 1..Len(s) : s[i] # c}))
    ELSE <<>>

StartsWith(s, prefix) ==
    Len(s) >= Len(prefix) /\ SubSeq(s, 1, Len(prefix)) = prefix

(***************************************************************************)
(* The urlencoding crate.                                                  *)
(***************************************************************************)
\* The characters urlencoding::encode leaves as they are.
IsUnreserved(c) == IsAlnum(c) \/ c \in {"-", "_", ".", "~"}

PercentEscape(c) ==
    <<"%", HexDigits[(Ord(c) \div 16) + 1], HexDigits[(Ord(c) % 16) + 1]>>

\* urlencoding::encode: every byte but the unreserved ones becomes %XX.
urlencoding_encode(s) ==
    Flatten(Tabulate(Len(s),
        LAMBDA i : IF IsUnreserved(s[i]) THEN <<s[i]>> ELSE PercentEscape(s[i])))

\* Whether s[i] is one of the two digits of an escape.  An escape starts with
\* '%', which is no digit, so the escapes of s are where IsEscapeAt holds.
InEscape(s, i) ==
    \/ i > 1 /\ IsEscapeAt(s, i - 1)
    \/ i > 2 /\ IsEscapeAt(s, i - 2)

\* The character of a decoded byte; a byte of 128 or more is no character on
\* its own and decodes to the replacement character.
ByteChar(byte) == IF byte < 128 THEN Chr(byte) ELSE Replacement

\* Percent decoding: an escape becomes its byte, anything else, a '%' that
\* starts no escape included, stays as it is.
PercentDecode(s) ==
    Flatten(Tabulate(Len(s),
        LAMBDA i : IF InEscape(s, i) THEN <<>>
                   ELSE IF IsEscapeAt(s, i) THEN <<ByteChar(EscapeByte(s, i))>>
                   ELSE <<s[i]>>))

\* urlencoding::decode: the decoded text, or an error when the bytes are not
\* UTF-8 (here: when an escape gives a byte of 128 or more; the model's texts
\* hold no multi-byte sequences).  '+' stays '+'.
urlencoding_decode(s) ==
    LET d == PercentDecode(s)
    IN  IF Contains(d, Replacement) THEN Err("FromUtf8Error", s) ELSE Ok(d)

(***************************************************************************)
(* The base32 crate, alphabet RFC4648 { padding: false }.                  *)
(***************************************************************************)
Base32Alphabet == <<
    "A", "B", "C", "D", "E", "F", "G", "H", "I", "J", "K", "L", "M", "N", "O", "P",
    "Q", "R", "S", "T", "U", "V", "W", "X", "Y", "Z", "2", "3", "4", "5", "6", "7">>

\* Bit j (0 is the first) of a sequence of w-bit units, 0 past the end.
BitAt(units, w, j) ==
    IF (j \div w) + 1 > Len(units) THEN 0
    ELSE (units[(j \div w) + 1] \div (2 ^ (w - 1 - (j % w)))) % 2

\* The w-bit unit that starts at bit j.
UnitAt(units, from, w, j) ==
    LET bit(k) == BitAt(units, from, j + k) * (2 ^ (w - 1 - k))
    IN  IF w = 5 THEN bit(0) + bit(1) + bit(2) + bit(3) + bit(4)
        ELSE bit(0) + bit(1) + bit(2) + bit(3) + bit(4) + bit(5) + bit(6) + bit(7)

\* base32::encode: 5 bits a character, the last one filled with zero bits, no
\* padding characters.
base32_encode(data) ==
    Tabulate((Len(data) * 8 + 4) \div 5,
             LAMBDA k : Base32Alphabet[UnitAt(data, 8, 5, (k - 1) * 5) + 1])

\* The inverse alphabet of base32::decode: a letter of either case or 2..7 gives
\* its value, '=' gives 0, anything else -1.
Base32Value(c) ==
    LET u == to_ascii_uppercase(c)
    IN  IF \E i \in 1..32 : Base32Alphabet[i] = u
        THEN (CHOOSE i \in 1..32 : Base32Alphabet[i] = u) - 1
        ELSE IF c = "=" THEN 0
        ELSE -1

\* The number of '=' that end data, 6 at most.
RECURSIVE TrailingPads(_, _)
TrailingPads(data, i) ==
    IF i > 6 \/ i > Len(data) \/ data[Len(data) + 1 - i] # "=" THEN 0
    ELSE 1 + TrailingPads(data, i + 1)

\* base32::decode: None for a character outside the alphabet, else the first
\* (unpadded length * 5 / 8) bytes of the bits.
base32_decode(data) ==
    IF \E i \in 1..Len(data) : Base32Value(data[i]) < 0 THEN None
    ELSE LET values == Tabulate(Len(data), LAMBDA i : Base32Value(data[i]))
             output_length == ((Len(data) - TrailingPads(data, 1)) * 5) \div 8
         IN  Some(Tabulate(output_length, LAMBDA m : UnitAt(values, 5, 8, (m - 1) * 8)))

\* TOTP::to_secret_base32
to_secret_base32(self) == base32_encode(self.secret)

(***************************************************************************)
(* The url crate: Url::parse, Url::scheme, Url::host, Url::path and        *)
(* Url::query_pairs, for the URLs of a scheme that is not special.         *)
(***************************************************************************)
SpecialSchemes == {<<"h", "t", "t", "p">>, <<"h", "t", "t", "p", "s">>, <<"w", "s">>, <<"w", "s", "s">>, <<"f", "t", "p">>, <<"f", "i", "l", "e">>}

IsSchemeChar(c) == IsAlnum(c) \/ c \in {"+", "-", "."}

\* The characters the parser escapes in a path and in a query.
PathEscaped == {" ", "\"", "<", ">", "GRAVE", "{", "}"}

QueryEscaped == {" ", "\"", "<", ">"}

\* The code points no opaque host may hold.
ForbiddenHost == {" ", "#", "/", "<", ">", "?", "@", "[", "\\", "]", "^", "|"}

\* s with its characters of set escaped.
EscapeSet(s, set) ==
    Flatten(Tabulate(Len(s),
        LAMBDA i : IF s[i] \in set THEN PercentEscape(s[i]) ELSE <<s[i]>>))

\* s cut at every sep: the pieces, in order (one piece when there is no sep).
RECURSIVE SplitFrom(_, _, _)
SplitFrom(s, sep, from) ==
    LET k == IndexFrom(s, sep, from)
    IN  IF k = 0 THEN <<Tail_(s, from)>>
        ELSE <<SubSeq(s, from, k - 1)>> \o SplitFrom(s, sep, k + 1)

Split(s, sep) == SplitFrom(s, sep, 1)

RECURSIVE Join(_, _)
Join(pieces, sep) ==
    IF Len(pieces) = 0 THEN <<>>
    ELSE IF Len(pieces) = 1 THEN pieces[1]
    ELSE pieces[1] \o <<sep>> \o Join(Tail(pieces), sep)

\* A path segment with its escaped dots read as dots.
DotEscapeAt(seg, i) == IsEscapeAt(seg, i) /\ EscapeByte(seg, i) = 46

Undot(seg) ==
    Flatten(Tabulate(Len(seg),
        LAMBDA i : IF \/ i > 1 /\ DotEscapeAt(seg, i - 1)
                      \/ i > 2 /\ DotEscapeAt(seg, i - 2) THEN <<>>
                   ELSE IF DotEscapeAt(seg, i) THEN <<".">>
                   ELSE <<seg[i]>>))

\* The segments of a path with "." dropped and ".." taking the segment before
\* it away; a dot segment in the last place leaves an empty last segment.
RECURSIVE RemoveDots(_, _, _)
RemoveDots(segs, i, acc) ==
    IF i > Len(segs) THEN acc
    ELSE LET seg  == Undot(segs[i])
             last == i = Len(segs)
             end  == IF last THEN <<<<>>>> ELSE <<>>
         IN  IF seg = <<".", ".">>
                 THEN RemoveDots(segs, i + 1,
                        (IF Len(acc) > 0 THEN SubSeq(acc, 1, Len(acc) - 1) ELSE acc)
                        \o end)
             ELSE IF seg = <<".">> THEN RemoveDots(segs, i + 1, acc \o end)
             ELSE RemoveDots(segs, i + 1, Append(acc, segs[i]))

\* The path as Url::path returns it: escaped, and without dot segments when it
\* starts with '/' (a path that does not is opaque and kept).
NormalPath(path) ==
    IF Len(path) > 0 /\ path[1] = "/"
    THEN <<"/">> \o Join(RemoveDots(Split(Tail(path), "/"), 1, <<>>), "/")
    ELSE path

\* The last index of c in s, 0 when there is none.
LastIndex(s, c) ==
    IF Contains(s, c) THEN Greatest({i \in 1..Len(s) : s[i] = c}) ELSE 0

\* s up to its first c, all of s when there is none.
Before(s, c) ==
    LET k == IndexFrom(s, c, 1)
    IN  IF k = 0 THEN s ELSE SubSeq(s, 1, k - 1)

\* s after its first c, None when there is none.
After(s, c) ==
    LET k == IndexFrom(s, c, 1)
    IN  IF k = 0 THEN None ELSE Some(Tail_(s, k + 1))

\* s after its last c, all of s when there is none.
AfterLast(s, c) == Tail_(s, LastIndex(s, c) + 1)

\* The parsed URL: host and query are Options.
UrlOf(scheme, host, path, query) ==
    Ok([scheme |-> scheme, host |-> host, path |-> path, query |-> query])

\* The host and the port of an authority without its userinfo: the port, after
\* the last ':', holds digits only, and the host no forbidden code point; a
\* special scheme needs a host, and an empty host is no host.
ParseHostPort(scheme, hostport, path, query) ==
    LET pcolon == LastIndex(hostport, ":")
    IN  IF pcolon > 0 /\ \E i \in (pcolon + 1)..Len(hostport) :
                            ~IsDigitChar(hostport[i])
            THEN Err("Url", "InvalidPort")
        ELSE IF \E i \in 1..Len(hostport) :
                    (pcolon = 0 \/ i < pcolon) /\ hostport[i] \in ForbiddenHost
            THEN Err("Url", "InvalidDomainCharacter")
        ELSE IF pcolon = 1 \/ Len(hostport) = 0
            THEN IF scheme \in SpecialSchemes THEN Err("Url", "EmptyHost")
                 ELSE UrlOf(scheme, None, path, query)
        ELSE UrlOf(scheme,
                   Some(IF pcolon = 0 THEN hostport
                        ELSE SubSeq(hostport, 1, pcolon - 1)),
                   path, query)

\* What follows the scheme, without query and fragment: "//", an authority up
\* to the next '/' and a path, or a path alone, and then no host.
ParseHier(scheme, hier, query) ==
    IF StartsWith(hier, <<"/", "/">>)
    THEN LET slash == IndexFrom(hier, "/", 3)
         IN  ParseHostPort(
                scheme,
                AfterLast(IF slash = 0 THEN Tail_(hier, 3)
                          ELSE SubSeq(hier, 3, slash - 1), "@"),
                IF slash = 0 THEN <<>>
                ELSE NormalPath(EscapeSet(Tail_(hier, slash), PathEscaped)),
                query)
    ELSE UrlOf(scheme, None, NormalPath(EscapeSet(hier, PathEscaped)), query)

\* The query of what follows the scheme, the fragment cut off: what follows
\* the first '?', escaped.
QueryOf(nofrag) ==
    LET query == After(nofrag, "?")
    IN  IF IsSome(query) THEN Some(EscapeSet(query[1], QueryEscaped)) ELSE None

ParseAfterScheme(scheme, nofrag) ==
    ParseHier(scheme, Before(nofrag, "?"), QueryOf(nofrag))

\* Url::parse: scheme ':' [ "//" authority ] path [ '?' query ] [ '#' fragment ].
\* Ok([scheme, host, path, query]) or the Url error.
UrlParse(input) ==
    LET colon == IndexFrom(input, ":", 1)
    IN  IF colon < 2 \/ ~IsAlpha(input[1])
           \/ \E i \in 2..(colon - 1) : ~IsSchemeChar(input[i])
        THEN Err("Url", "RelativeUrlWithoutBase")
        ELSE ParseAfterScheme(
                Tabulate(colon - 1, LAMBDA i : to_ascii_lowercase(input[i])),
                Before(Tail_(input, colon + 1), "#"))

\* The decoding of form_urlencoded::parse: '+' is a space, an escape is its
\* byte, and bytes that are not UTF-8 become the replacement character.
FormDecode(s) ==
    PercentDecode(Tabulate(Len(s), LAMBDA i : IF s[i] = "+" THEN " " ELSE s[i]))

\* Url::query_pairs: the pieces between '&', the empty ones skipped, each cut at
\* its first '=' into a decoded key and a decoded value.
RECURSIVE PairsOf(_, _)
PairsOf(pieces, i) ==
    IF i > Len(pieces) THEN <<>>
    ELSE IF Len(pieces[i]) = 0 THEN PairsOf(pieces, i + 1)
    ELSE LET eq == IndexFrom(pieces[i], "=", 1)
             k  == IF eq = 0 THEN pieces[i] ELSE SubSeq(pieces[i], 1, eq - 1)
             v  == IF eq = 0 THEN <<>> ELSE Tail_(pieces[i], eq + 1)
         IN  <<[key |-> FormDecode(k), value |-> FormDecode(v)]>>
             \o PairsOf(pieces, i + 1)

query_pairs(url) ==
    IF IsSome(url.query) THEN PairsOf(Split(url.query[1], "&"), 1) ELSE <<>>

(***************************************************************************)
(* The URI codec and the base32 constructor.                               *)
(***************************************************************************)
\* impl fmt::Display for Algorithm
AlgorithmName(algorithm) ==
    CASE algorithm = "SHA1" -> <<"S", "H", "A", "1">>
      [] algorithm = "SHA256" -> <<"S", "H", "A", "2", "5", "6">>
      [] algorithm = "SHA512" -> <<"S", "H", "A", "5", "1", "2">>

\* str::parse::<usize>() and str::parse::<u64>(): an optional '+', then one
\* decimal digit or more (the model's numerals stay far below 2^64).
RECURSIVE DigitsValue(_, _)
DigitsValue(s, n) ==
    IF n = 0 THEN 0 ELSE DigitsValue(s, n - 1) * 10 + DigitValue(s[n])

ParseUnsigned(s) ==
    LET body == IF Len(s) > 0 /\ s[1] = "+" THEN Tail(s) ELSE s
    IN  IF Len(body) = 0 \/ \E i \in 1..Len(body) : ~IsDigitChar(body[i])
        THEN None
        ELSE Some(DigitsValue(body, Len(body)))

\* TOTP::from_secret_base32 with an error that does not carry the text.
from_secret_base32_anonymous(secret) ==
    LET buffer == base32_decode(secret)
    IN  IF ~IsSome(buffer) THEN Err("Secret", <<>>)
        ELSE new("SHA1", 6, 1, 30, buffer[1], <<>>, None)

\* TOTP::from_secret_base32
from_secret_base32(secret) ==
    LET buffer == base32_decode(secret)
    IN  IF ~IsSome(buffer) THEN Err("Secret", secret)
        ELSE new("SHA1", 6, 1, 30, buffer[1], <<>>, None)

\* The arms of the match on the key in TOTP::from_url, each on the value as
\* parsed: Ok(the fields with the one set) or the arm's error.
SetAlgorithm(acc, value, parsed) ==
    IF parsed = {} THEN Err("Algorithm", value)
    ELSE Ok([acc EXCEPT !.algorithm = CHOOSE a \in parsed : TRUE])

SetDigits(acc, value, parsed) ==
    IF IsSome(parsed) THEN Ok([acc EXCEPT !.digits = parsed[1]])
    ELSE Err("Digits", value)

\* The "period" arm with the assignment to step left out.
SetStep_unassigned(acc, value, parsed) ==
    IF IsSome(parsed) THEN Ok(acc) ELSE Err("Step", value)

SetStep(acc, value, parsed) ==
    IF IsSome(parsed) THEN Ok([acc EXCEPT !.step = parsed[1]])
    ELSE Err("Step", value)

SetSecret(acc, value, parsed) ==
    IF IsSome(parsed) THEN Ok([acc EXCEPT !.secret = parsed[1]])
    ELSE Err("Secret", value)

SetIssuer(acc, param_issuer) ==
    IF IsSome(acc.issuer) /\ param_issuer # acc.issuer[1]
    THEN Err("IssuerMismatch", <<acc.issuer[1], param_issuer>>)
    ELSE Ok([acc EXCEPT !.issuer = Some(param_issuer)])

\* One turn of the query loop of TOTP::from_url: acc holds algorithm, digits,
\* step, secret and issuer as set so far.
QueryStep(acc, key, value) ==
    IF key = <<"a", "l", "g", "o", "r", "i", "t", "h", "m">> THEN
        SetAlgorithm(acc, value, {a \in Algorithms : AlgorithmName(a) = value})
    ELSE IF key = <<"d", "i", "g", "i", "t", "s">> THEN
        SetDigits(acc, value, ParseUnsigned(value))
    ELSE IF key = <<"p", "e", "r", "i", "o", "d">> THEN
        SetStep(acc, value, ParseUnsigned(value))
    ELSE IF key = <<"s", "e", "c", "r", "e", "t">> THEN
        SetSecret(acc, value, base32_decode(value))
    ELSE IF key = <<"i", "s", "s", "u", "e", "r">> THEN
        SetIssuer(acc, value)
    ELSE Ok(acc)

\* The query loop from pair i on: Ok(the fields) after the last pair, or the
\* error of the first pair that fails.
RECURSIVE QueryLoop(_, _, _)
QueryLoop(pairs, i, acc) ==
    IF i > Len(pairs) \/ ~IsOk(acc) THEN acc
    ELSE QueryLoop(pairs, i + 1, QueryStep(acc.val, pairs[i].key, pairs[i].value))

\* The label with its issuer, when the path holds a ':': the issuer decoded, the
\* account name without its leading colons and not yet decoded.
LabelWithIssuer(first, rest, issuer) ==
    IF ~IsOk(issuer) THEN Err("IssuerDecoding", first)
    ELSE Ok([issuer |-> Some(issuer.val),
             account_name |-> trim_start_matches(rest, ":")])

\* The label of TOTP::from_url: the path without its leading slashes, cut at
\* its first ':'.  Ok([issuer, account_name]) or the IssuerDecoding error.
LabelOfPath(path) ==
    IF Contains(path, ":")
    THEN LabelWithIssuer(Before(path, ":"), After(path, ":")[1],
                         urlencoding_decode(Before(path, ":")))
    ELSE Ok([issuer |-> None, account_name |-> path])

LabelOf(url) == LabelOfPath(trim_start_matches(url.path, "/"))

\* The end of TOTP::from_url: the check of the secret and the constructor,
\* with a skew of 1.
FromFields(fields, account_name) ==
    IF ~IsOk(fields) THEN fields
    ELSE IF Len(fields.val.secret) = 0 THEN Err("Secret", <<>>)
    ELSE new(fields.val.algorithm, fields.val.digits, 1, fields.val.step,
             fields.val.secret, account_name, fields.val.issuer)

\* TOTP::from_url from the decoding of the account name on, the defaults of
\* algorithm, digits and step set.
FromLabel(url, label, account_name) ==
    IF ~IsOk(account_name) THEN Err("AccountName", label.account_name)
    ELSE FromFields(QueryLoop(query_pairs(url), 1,
                        Ok([algorithm |-> "SHA1", digits |-> 6, step |-> 30,
                            secret |-> <<>>, issuer |-> label.issuer])),
                    account_name.val)

\* TOTP::from_url from the label on.
FromLabelled(url, label) ==
    IF ~IsOk(label) THEN label
    ELSE FromLabel(url, label.val, urlencoding_decode(label.val.account_name))

\* TOTP::from_url on the parsed URL: the checks of the scheme and of the host,
\* whose error unwraps the host.
FromParsed(url) ==
    IF ~IsOk(url) THEN url
    ELSE IF url.val.scheme # <<"o", "t", "p", "a", "u", "t", "h">>
        THEN Err("Scheme", url.val.scheme)
    ELSE IF url.val.host # Some(<<"t", "o", "t", "p">>) THEN
        IF IsSome(url.val.host) THEN Err("Host", url.val.host[1])
        ELSE Panic("called Option::unwrap() on a None value")
    ELSE FromLabelled(url.val, LabelOf(url.val))

\* TOTP::from_url
from_url(input) == FromParsed(UrlParse(input))

\* TOTP::get_url without the digits parameter.
get_url_without_digits(self) ==
    LET account_name == urlencoding_encode(self.account_name)
        label ==
            IF IsSome(self.issuer)
            THEN LET issuer == urlencoding_encode(self.issuer[1])
                 IN  issuer \o <<":">> \o account_name \o <<"?", "i", "s", "s", "u", "e", "r", "=">>
                     \o issuer \o <<"&">>
            ELSE account_name \o <<"?">>
    IN  <<"o", "t", "p", "a", "u", "t", "h", ":", "/", "/", "t", "o", "t", "p", "/">>
        \o label
        \o <<"s", "e", "c", "r", "e", "t", "=">> \o to_secret_base32(self)
        \o <<"&", "a", "l", "g", "o", "r", "i", "t", "h", "m", "=">> \o AlgorithmName(self.algorithm)

\* TOTP::get_url
get_url(self) ==
    LET account_name == urlencoding_encode(self.account_name)
        label ==
            IF IsSome(self.issuer)
            THEN LET issuer == urlencoding_encode(self.issuer[1])
                 IN  issuer \o <<":">> \o account_name \o <<"?", "i", "s", "s", "u", "e", "r", "=">>
                     \o issuer \o <<"&">>
            ELSE account_name \o <<"?">>
    IN  <<"o", "t", "p", "a", "u", "t", "h", ":", "/", "/", "t", "o", "t", "p", "/">>
        \o label
        \o <<"s", "e", "c", "r", "e", "t", "=">> \o to_secret_base32(self)
        \o <<"&", "d", "i", "g", "i", "t", "s", "=">> \o Decimal(self.digits)
        \o <<"&", "a", "l", "g", "o", "r", "i", "t", "h", "m", "=">> \o AlgorithmName(self.algorithm)

(***************************************************************************)
(* The inputs of the calls.                                                *)
(***************************************************************************)
\* How far the small skews, the step counters of the times and the secrets'
\* lengths above 16 bytes go.
MaxSkew == 2

MaxCounter == 2

MaxExtra == 1

\* A secret of len bytes.
SecretOf(len, seed) == Tabulate(len, LAMBDA i : (seed + 7 * i) % 256)

\* Secrets of 0 and of 15 bytes (too small), of 16 bytes and more; two secrets of
\* 16 bytes differ in every byte, SecretOf(16, 65) starts SecretOf(17, 65).
SecretsIn ==
    {SecretOf(len, 65) : len \in {0} \cup (15..(16 + MaxExtra))} \cup {SecretOf(16, 200)}

DigitsIn == 5..9

\* skew is a u8: the small values, and 128, whose double leaves the 8 bits.
SkewsIn == (0..MaxSkew) \cup {128}

StepsIn == {0, 1, 30}

AccountNamesIn == {<<>>, <<"a", "b">>, <<"a", "@", "b">>, <<"a", ":", "b">>, <<".", ".">>}

IssuersIn ==
    {None, Some(<<>>), Some(<<"G">>), Some(<<"G", " ", "h">>), Some(<<"G", ":">>),
     Some(<<"a", "+", "b">>)}

\* The arguments of TOTP::new: every digits, secret and kind of label under one
\* algorithm, skew and step; every algorithm and accepted digits; every skew and
\* step; every account name and issuer.
NewInputs ==
    [algorithm : {"SHA1"}, digits : DigitsIn, skew : {1}, step : {30},
     secret : SecretsIn, account_name : {<<"a", "@", "b">>, <<"a", ":", "b">>},
     issuer : {None, Some(<<"G", " ", "h">>), Some(<<"G", ":">>)}]
    \cup
    [algorithm : Algorithms, digits : 6..8, skew : {1}, step : {30},
     secret : {SecretOf(16, 65)}, account_name : {<<"a", "@", "b">>}, issuer : {None}]
    \cup
    [algorithm : {"SHA1"}, digits : {6}, skew : SkewsIn, step : StepsIn,
     secret : {SecretOf(16, 65)}, account_name : {<<"a", "@", "b">>}, issuer : {None}]
    \cup
    [algorithm : {"SHA256"}, digits : {8}, skew : {0}, step : {60},
     secret : {SecretOf(16, 65)}, account_name : AccountNamesIn, issuer : IssuersIn]

\* Times in seconds: the first step boundaries of a 30 second step, a second
\* before one, a time of the repository's tests, and the last u64.
Times ==
    {U64(c * 30) : c \in 0..MaxCounter} \cup {U64(29), U64(1000), U64Max}

\* The clock: a time, or a reading before the epoch.
Clocks ==
    {[ok |-> TRUE, secs |-> t] : t \in Times} \cup {[ok |-> FALSE, secs |-> U64Zero]}

\* Tokens that are no code of the entity, whatever it is: too short, and not
\* decimal.
BogusTokens == {<<"1", "2", "3", "4", "5">>, <<"b", "o", "g", "u", "s">>}

\* The entities a TOTP is compared with: secrets that agree and secrets that
\* differ, at the same length and at another, under fields that agree and fields
\* that differ.
Others ==
    {new(a, d, 1, 30, s, <<"b">>, Some(<<"H">>)).val :
        a \in {"SHA1", "SHA512"}, d \in {6, 8},
        s \in {SecretOf(16, 65), SecretOf(16, 200), SecretOf(17, 65)}}

\* The texts given to TOTP::from_secret_base32.
Base32Inputs == {
    \* "JBHVMXLENNZHTAEHR2KZZI5KWE"
    <<"J", "B", "H", "V", "M", "X", "L", "E", "N", "N", "Z", "H", "T", "A", "E", "H",
      "R", "2", "K", "Z", "Z", "I", "5", "K", "W", "E">>,
    \* "JBHVMXLENNZHTAEHR2KZZI5K"
    <<"J", "B", "H", "V", "M", "X", "L", "E", "N", "N", "Z", "H", "T", "A", "E", "H",
      "R", "2", "K", "Z", "Z", "I", "5", "K">>,
    \* "JBHVMXLENNZHTAEHR2KZZI5KWG4A"
    <<"J", "B", "H", "V", "M", "X", "L", "E", "N", "N", "Z", "H", "T", "A", "E", "H",
      "R", "2", "K", "Z", "Z", "I", "5", "K", "W", "G", "4", "A">>,
    \* "jbhvmxlennzhtaehr2kzzi5kwe"
    <<"j", "b", "h", "v", "m", "x", "l", "e", "n", "n", "z", "h", "t", "a", "e", "h",
      "r", "2", "k", "z", "z", "i", "5", "k", "w", "e">>,
    \* "JBHVMXLENNZHTAEHR2KZZI5KWE1"
    <<"J", "B", "H", "V", "M", "X", "L", "E", "N", "N", "Z", "H", "T", "A", "E", "H",
      "R", "2", "K", "Z", "Z", "I", "5", "K", "W", "E", "1">>,
    \* ""
    <<>>,
    \* "JBHVMXLENNZHTAEHR2KZZI5KWE="
    <<"J", "B", "H", "V", "M", "X", "L", "E", "N", "N", "Z", "H", "T", "A", "E", "H",
      "R", "2", "K", "Z", "Z", "I", "5", "K", "W", "E", "=">>}

\* The texts given to TOTP::from_url.
UrlInputs == {
    \* otpauth://totp/G:a?secret=JBHVMXLENNZHTAEHR2KZZI5KWE
    <<"o", "t", "p", "a", "u", "t", "h", ":", "/", "/", "t", "o", "t", "p", "/", "G",
      ":", "a", "?", "s", "e", "c", "r", "e", "t", "=", "J", "B", "H", "V", "M", "X",
      "L", "E", "N", "N", "Z", "H", "T", "A", "E", "H", "R", "2", "K", "Z", "Z", "I",
      "5", "K", "W", "E">>,
    \* otpauth://totp/a?secret=JBHVMXLENNZHTAEHR2KZZI5KWE&issuer=G
    <<"o", "t", "p", "a", "u", "t", "h", ":", "/", "/", "t", "o", "t", "p", "/", "a",
      "?", "s", "e", "c", "r", "e", "t", "=", "J", "B", "H", "V", "M", "X", "L", "E",
      "N", "N", "Z", "H", "T", "A", "E", "H", "R", "2", "K", "Z", "Z", "I", "5", "K",
      "W", "E", "&", "i", "s", "s", "u", "e", "r", "=", "G">>,
    \* otpauth://totp/G:a?issuer=G&secret=JBHVMXLENNZHTAEHR2KZZI5KWE&digits=8&period=60&algorithm=SHA256
    <<"o", "t", "p", "a", "u", "t", "h", ":", "/", "/", "t", "o", "t", "p", "/", "G",
      ":", "a", "?", "i", "s", "s", "u", "e", "r", "=", "G", "&", "s", "e", "c", "r",
      "e", "t", "=", "J", "B", "H", "V", "M", "X", "L", "E", "N", "N", "Z", "H", "T",
      "A", "E", "H", "R", "2", "K", "Z", "Z", "I", "5", "K", "W", "E", "&", "d", "i",
      "g", "i", "t", "s", "=", "8", "&", "p", "e", "r", "i", "o", "d", "=", "6", "0",
      "&", "a", "l", "g", "o", "r", "i", "t", "h", "m", "=", "S", "H", "A", "2", "5",
      "6">>,
    \* otpauth://totp/G:a?issuer=H&secret=JBHVMXLENNZHTAEHR2KZZI5KWE
    <<"o", "t", "p", "a", "u", "t", "h", ":", "/", "/", "t", "o", "t", "p", "/", "G",
      ":", "a", "?", "i", "s", "s", "u", "e", "r", "=", "H", "&", "s", "e", "c", "r",
      "e", "t", "=", "J", "B", "H", "V", "M", "X", "L", "E", "N", "N", "Z", "H", "T",
      "A", "E", "H", "R", "2", "K", "Z", "Z", "I", "5", "K", "W", "E">>,
    \* otpauth://totp/a?issuer=G&issuer=H&secret=JBHVMXLENNZHTAEHR2KZZI5KWE
    <<"o", "t", "p", "a", "u", "t", "h", ":", "/", "/", "t", "o", "t", "p", "/", "a",
      "?", "i", "s", "s", "u", "e", "r", "=", "G", "&", "i", "s", "s", "u", "e", "r",
      "=", "H", "&", "s", "e", "c", "r", "e", "t", "=", "J", "B", "H", "V", "M", "X",
      "L", "E", "N", "N", "Z", "H", "T", "A", "E", "H", "R", "2", "K", "Z", "Z", "I",
      "5", "K", "W", "E">>,
    \* otpauth://totp/a?secret=JBHVMXLENNZHTAEHR2KZZI5KWE&period=0
    <<"o", "t", "p", "a", "u", "t", "h", ":", "/", "/", "t", "o", "t", "p", "/", "a",
      "?", "s", "e", "c", "r", "e", "t", "=", "J", "B", "H", "V", "M", "X", "L", "E",
      "N", "N", "Z", "H", "T", "A", "E", "H", "R", "2", "K", "Z", "Z", "I", "5", "K",
      "W", "E", "&", "p", "e", "r", "i", "o", "d", "=", "0">>,
    \* otpauth://hotp/a?secret=JBHVMXLENNZHTAEHR2KZZI5KWE
    <<"o", "t", "p", "a", "u", "t", "h", ":", "/", "/", "h", "o", "t", "p", "/", "a",
      "?", "s", "e", "c", "r", "e", "t", "=", "J", "B", "H", "V", "M", "X", "L", "E",
      "N", "N", "Z", "H", "T", "A", "E", "H", "R", "2", "K", "Z", "Z", "I", "5", "K",
      "W", "E">>,
    \* otpauth:totp/a?secret=JBHVMXLENNZHTAEHR2KZZI5KWE
    <<"o", "t", "p", "a", "u", "t", "h", ":", "t", "o", "t", "p", "/", "a", "?", "s",
      "e", "c", "r", "e", "t", "=", "J", "B", "H", "V", "M", "X", "L", "E", "N", "N",
      "Z", "H", "T", "A", "E", "H", "R", "2", "K", "Z", "Z", "I", "5", "K", "W", "E">>,
    \* http://totp/a?secret=JBHVMXLENNZHTAEHR2KZZI5KWE&digits=9
    <<"h", "t", "t", "p", ":", "/", "/", "t", "o", "t", "p", "/", "a", "?", "s", "e",
      "c", "r", "e", "t", "=", "J", "B", "H", "V", "M", "X", "L", "E", "N", "N", "Z",
      "H", "T", "A", "E", "H", "R", "2", "K", "Z", "Z", "I", "5", "K", "W", "E", "&",
      "d", "i", "g", "i", "t", "s", "=", "9">>,
    \* otpauth://totp/a?digits=9
    <<"o", "t", "p", "a", "u", "t", "h", ":", "/", "/", "t", "o", "t", "p", "/", "a",
      "?", "d", "i", "g", "i", "t", "s", "=", "9">>,
    \* otpauth://totp/a?secret=JBHVMXLENNZHTAEHR2KZZI5KWE&algorithm=MD5
    <<"o", "t", "p", "a", "u", "t", "h", ":", "/", "/", "t", "o", "t", "p", "/", "a",
      "?", "s", "e", "c", "r", "e", "t", "=", "J", "B", "H", "V", "M", "X", "L", "E",
      "N", "N", "Z", "H", "T", "A", "E", "H", "R", "2", "K", "Z", "Z", "I", "5", "K",
      "W", "E", "&", "a", "l", "g", "o", "r", "i", "t", "h", "m", "=", "M", "D", "5">>,
    \* otpauth://totp/a?secret=JBHVMXLENNZHTAEHR2KZZI5KWE&digits=x
    <<"o", "t", "p", "a", "u", "t", "h", ":", "/", "/", "t", "o", "t", "p", "/", "a",
      "?", "s", "e", "c", "r", "e", "t", "=", "J", "B", "H", "V", "M", "X", "L", "E",
      "N", "N", "Z", "H", "T", "A", "E", "H", "R", "2", "K", "Z", "Z", "I", "5", "K",
      "W", "E", "&", "d", "i", "g", "i", "t", "s", "=", "x">>,
    \* otpauth://totp/a?secret=JBHVMXLENNZHTAEHR2KZZI5KWE&period=-1
    <<"o", "t", "p", "a", "u", "t", "h", ":", "/", "/", "t", "o", "t", "p", "/", "a",
      "?", "s", "e", "c", "r", "e", "t", "=", "J", "B", "H", "V", "M", "X", "L", "E",
      "N", "N", "Z", "H", "T", "A", "E", "H", "R", "2", "K", "Z", "Z", "I", "5", "K",
      "W", "E", "&", "p", "e", "r", "i", "o", "d", "=", "-", "1">>,
    \* otpauth://totp/a?secret=JBHVMXLENNZHTAEHR2KZZI5KWE1
    <<"o", "t", "p", "a", "u", "t", "h", ":", "/", "/", "t", "o", "t", "p", "/", "a",
      "?", "s", "e", "c", "r", "e", "t", "=", "J", "B", "H", "V", "M", "X", "L", "E",
      "N", "N", "Z", "H", "T", "A", "E", "H", "R", "2", "K", "Z", "Z", "I", "5", "K",
      "W", "E", "1">>,
    \* otpauth://totp/%FF:a?secret=JBHVMXLENNZHTAEHR2KZZI5KWE
    <<"o", "t", "p", "a", "u", "t", "h", ":", "/", "/", "t", "o", "t", "p", "/", "%",
      "F", "F", ":", "a", "?", "s", "e", "c", "r", "e", "t", "=", "J", "B", "H", "V",
      "M", "X", "L", "E", "N", "N", "Z", "H", "T", "A", "E", "H", "R", "2", "K", "Z",
      "Z", "I", "5", "K", "W", "E">>,
    \* otpauth://totp/a%FF?secret=JBHVMXLENNZHTAEHR2KZZI5KWE
    <<"o", "t", "p", "a", "u", "t", "h", ":", "/", "/", "t", "o", "t", "p", "/", "a",
      "%", "F", "F", "?", "s", "e", "c", "r", "e", "t", "=", "J", "B", "H", "V", "M",
      "X", "L", "E", "N", "N", "Z", "H", "T", "A", "E", "H", "R", "2", "K", "Z", "Z",
      "I", "5", "K", "W", "E">>,
    \* totp/a
    <<"t", "o", "t", "p", "/", "a">>,
    \* otpauth://totp/G:a?secret=JBHVMXLENNZHTAEHR2KZZI5KWE&foo=bar
    <<"o", "t", "p", "a", "u", "t", "h", ":", "/", "/", "t", "o", "t", "p", "/", "G",
      ":", "a", "?", "s", "e", "c", "r", "e", "t", "=", "J", "B", "H", "V", "M", "X",
      "L", "E", "N", "N", "Z", "H", "T", "A", "E", "H", "R", "2", "K", "Z", "Z", "I",
      "5", "K", "W", "E", "&", "f", "o", "o", "=", "b", "a", "r">>,
    \* otpauth://totp/G%3A:a?secret=JBHVMXLENNZHTAEHR2KZZI5KWE
    <<"o", "t", "p", "a", "u", "t", "h", ":", "/", "/", "t", "o", "t", "p", "/", "G",
      "%", "3", "A", ":", "a", "?", "s", "e", "c", "r", "e", "t", "=", "J", "B", "H",
      "V", "M", "X", "L", "E", "N", "N", "Z", "H", "T", "A", "E", "H", "R", "2", "K",
      "Z", "Z", "I", "5", "K", "W", "E">>,
    \* otpauth://totp/a+b:x?issuer=a+b&secret=JBHVMXLENNZHTAEHR2KZZI5KWE
    <<"o", "t", "p", "a", "u", "t", "h", ":", "/", "/", "t", "o", "t", "p", "/", "a",
      "+", "b", ":", "x", "?", "i", "s", "s", "u", "e", "r", "=", "a", "+", "b", "&",
      "s", "e", "c", "r", "e", "t", "=", "J", "B", "H", "V", "M", "X", "L", "E", "N",
      "N", "Z", "H", "T", "A", "E", "H", "R", "2", "K", "Z", "Z", "I", "5", "K", "W",
      "E">>,
    \* otpauth://totp/G:a?algorithm=MD5&issuer=H&secret=JBHVMXLENNZHTAEHR2KZZI5KWE
    <<"o", "t", "p", "a", "u", "t", "h", ":", "/", "/", "t", "o", "t", "p", "/", "G",
      ":", "a", "?", "a", "l", "g", "o", "r", "i", "t", "h", "m", "=", "M", "D", "5",
      "&", "i", "s", "s", "u", "e", "r", "=", "H", "&", "s", "e", "c", "r", "e", "t",
      "=", "J", "B", "H", "V", "M", "X", "L", "E", "N", "N", "Z", "H", "T", "A", "E",
      "H", "R", "2", "K", "Z", "Z", "I", "5", "K", "W", "E">>,
    \* otpauth://totp/G:a?issuer=H&algorithm=MD5
    <<"o", "t", "p", "a", "u", "t", "h", ":", "/", "/", "t", "o", "t", "p", "/", "G",
      ":", "a", "?", "i", "s", "s", "u", "e", "r", "=", "H", "&", "a", "l", "g", "o",
      "r", "i", "t", "h", "m", "=", "M", "D", "5">>,
    \* otpauth://totp/a?secret=JBHVMXLENNZHTAEHR2KZZI5KWE&digits=9
    <<"o", "t", "p", "a", "u", "t", "h", ":", "/", "/", "t", "o", "t", "p", "/",
      "a", "?", "s", "e", "c", "r", "e", "t", "=", "J", "B", "H", "V", "M", "X",
      "L", "E", "N", "N", "Z", "H", "T", "A", "E", "H", "R", "2", "K", "Z", "Z",
      "I", "5", "K", "W", "E", "&", "d", "i", "g", "i", "t", "s", "=", "9">>,
    \* otpauth://totp/?secret=JBHVMXLENNZHTAEHR2KZZI5K
    <<"o", "t", "p", "a", "u", "t", "h", ":", "/", "/", "t", "o", "t", "p", "/", "?",
      "s", "e", "c", "r", "e", "t", "=", "J", "B", "H", "V", "M", "X", "L", "E", "N",
      "N", "Z", "H", "T", "A", "E", "H", "R", "2", "K", "Z", "Z", "I", "5", "K">>}

(***************************************************************************)
(* The state machine: a program that constructs an entity (totp: what its  *)
(* last constructor call returned, None after a failed call), calls the    *)
(* library on it, and drops it.  out is the last call: its name, the       *)
(* entity it was called on, its argument and its outcome.                  *)
(*                                                                         *)
(* No operation changes the entity it is called on, so a call made on the  *)
(* entity as constructed reaches every state that the same call made after *)
(* other calls reaches: the operations are taken on the fresh entity only. *)
(***************************************************************************)
Call(op, self, arg, res) == [op |-> op, self |-> self, arg |-> arg, res |-> res]

NoCall == Call("init", None, <<>>, Ok(<<>>))

Constructed(res) == IF IsOk(res) THEN Some(res.val) ELSE None

\* The program holds an entity that a constructor has just returned.
Fresh == IsSome(totp) /\ out.op \in {"new", "from_secret_base32", "from_url"}

Init ==
    /\ totp = None
    /\ out = NoCall
    /\ overflow_checks \in BOOLEAN

New ==
    /\ out.op = "init"
    /\ \E a \in NewInputs :
        LET res == new(a.algorithm, a.digits, a.skew, a.step, a.secret,
                       a.account_name, a.issuer)
        IN  /\ totp' = Constructed(res)
            /\ out' = Call("new", None, a, res)
    /\ UNCHANGED overflow_checks

\* The text is one of the inputs, or the text to_secret_base32 has just returned
\* for the entity origin.
FromSecretBase32 ==
    /\ out.op \in {"init", "to_secret_base32"}
    /\ \E text \in IF out.op = "init" THEN Base32Inputs ELSE {out.res.val} :
        LET res == from_secret_base32(text)
        IN  /\ totp' = Constructed(res)
            /\ out' = Call("from_secret_base32", None,
                           [text |-> text, origin |-> out.self], res)
    /\ UNCHANGED overflow_checks

\* The URL is one of the inputs, or the URL get_url has just returned for the
\* entity origin.
FromUrl ==
    /\ out.op \in {"init", "get_url"}
    /\ \E url \in IF out.op = "init" THEN UrlInputs ELSE {out.res.val} :
        LET res == from_url(url)
        IN  /\ totp' = Constructed(res)
            /\ out' = Call("from_url", None, [url |-> url, origin |-> out.self], res)
    /\ UNCHANGED overflow_checks

Generate ==
    /\ Fresh
    /\ \E time \in Times :
        out' = Call("generate", totp, time, generate(totp[1], time))
    /\ UNCHANGED <<totp, overflow_checks>>

NextStep ==
    /\ Fresh
    /\ \E time \in Times :
        out' = Call("next_step", totp, time, next_step(totp[1], time))
    /\ UNCHANGED <<totp, overflow_checks>>

Ttl ==
    /\ Fresh
    /\ \E clock \in Clocks :
        out' = Call("ttl", totp, clock, ttl(totp[1], clock))
    /\ UNCHANGED <<totp, overflow_checks>>

\* The token is a code of the entity at one of the times, or no code at all.
Check ==
    /\ Fresh
    /\ \E time \in Times :
       \E token \in BogusTokens
                    \cup {generate(totp[1], t).val :
                            t \in {u \in Times : totp[1].step # 0}} :
        out' = Call("check", totp, [token |-> token, time |-> time],
                    check(totp[1], token, time))
    /\ UNCHANGED <<totp, overflow_checks>>

NextStepCurrent ==
    /\ Fresh
    /\ \E clock \in Clocks :
        out' = Call("next_step_current", totp, clock, next_step_current(totp[1], clock))
    /\ UNCHANGED <<totp, overflow_checks>>

GenerateCurrent ==
    /\ Fresh
    /\ \E clock \in Clocks :
        out' = Call("generate_current", totp, clock, generate_current(totp[1], clock))
    /\ UNCHANGED <<totp, overflow_checks>>

\* The token is the code of the entity at time 0 or at time 30, or no code at
\* all.
CheckCurrent ==
    /\ Fresh
    /\ \E clock \in Clocks :
       \E token \in BogusTokens
                    \cup {generate(totp[1], t).val :
                            t \in {u \in {U64Zero, U64(30)} : totp[1].step # 0}} :
        out' = Call("check_current", totp, [token |-> token, clock |-> clock],
                    check_current(totp[1], token, clock))
    /\ UNCHANGED <<totp, overflow_checks>>

Eq ==
    /\ Fresh
    /\ \E other \in Others \cup {totp[1]} :
        out' = Call("eq", totp, other, Ok(TotpEq(totp[1], other)))
    /\ UNCHANGED <<totp, overflow_checks>>

ToSecretBase32 ==
    /\ Fresh
    /\ out' = Call("to_secret_base32", totp, <<>>, Ok(to_secret_base32(totp[1])))
    /\ UNCHANGED <<totp, overflow_checks>>

GetUrl ==
    /\ Fresh
    /\ out' = Call("get_url", totp, <<>>, Ok(get_url(totp[1])))
    /\ UNCHANGED <<totp, overflow_checks>>

\* The program drops what it holds and starts over.
Drop ==
    /\ out.op # "init"
    /\ totp' = None
    /\ out' = NoCall
    /\ UNCHANGED overflow_checks

Next ==
    \/ New
    \/ FromSecretBase32
    \/ FromUrl
    \/ Generate
    \/ NextStep
    \/ Ttl
    \/ Check
    \/ NextStepCurrent
    \/ GenerateCurrent
    \/ CheckCurrent
    \/ Eq
    \/ ToSecretBase32
    \/ GetUrl
    \/ Drop

Spec == Init /\ [][Next]_vars

(***************************************************************************)
(* The claims, each on the call the state records.                         *)
(***************************************************************************)
\* C1: TOTP::new returns Ok if and only if 6 <= digits <= 8, the secret has at
\* least 16 bytes, account_name holds no ':' and issuer, when present, holds no
\* ':'; otherwise it returns an error and no entity.
C1_NewOkIffValid ==
    out.op = "new" =>
        LET a == out.arg
            valid ==
                /\ a.digits >= 6
                /\ a.digits <= 8
                /\ Len(a.secret) >= 16
                /\ \A i \in 1..Len(a.account_name) : a.account_name[i] # ":"
                /\ IsSome(a.issuer) => \A i \in 1..Len(a.issuer[1]) : a.issuer[1][i] # ":"
        IN  /\ IsOk(out.res) <=> valid
            /\ IsOk(out.res) => totp = Some(out.res.val)
            /\ ~IsOk(out.res) => out.res.kind = "err" /\ totp = None

\* new has accepted 8 digits, a secret of 16 bytes and an issuer.
C1_Accepted ==
    /\ out.op = "new"
    /\ IsOk(out.res)
    /\ out.arg.digits = 8
    /\ Len(out.arg.secret) = 16
    /\ IsSome(out.arg.issuer)

\* C2: for an entity with a step above 0, check(token, time) returns true if and
\* only if token equals generate(t') for one of the step boundaries
\* t' = (time / step + k) * step with -skew <= k <= skew.
C2_CheckIffInWindow ==
    out.op = "check" /\ out.self[1].step > 0 =>
        LET self == out.self[1]
            q == DivMod(out.arg.time, self.step).q
            counters ==
                {c.v : c \in {d \in {SubSmall(q, k) : k \in 0..self.skew}
                                    \cup {AddSmall(q, k) : k \in 0..self.skew} :
                              ~d.overflow}}
            window ==
                {b.v : b \in {p \in {MulSmall(c, self.step) : c \in counters} :
                              ~p.overflow}}
        IN  out.res = Ok(\E t \in window : generate(self, t).val = out.arg.token)

\* C3: generate depends on secret, algorithm, digits, step and time / step only:
\* an entity that differs in skew, account_name and issuer does at the same time
\* what this one did, this one does the same at every time with the same
\* time / step, and a string it returns has `digits` characters, all decimal
\* digits.
C3_GenerateDeterministic ==
    out.op = "generate" =>
        LET self == out.self[1]
            time == out.arg
        IN  /\ \A skew \in SkewsIn, account_name \in AccountNamesIn, issuer \in IssuersIn :
                    generate([self EXCEPT !.skew = skew,
                                          !.account_name = account_name,
                                          !.issuer = issuer], time) = out.res
            /\ self.step > 0 =>
                    \A t \in Times :
                        DivMod(t, self.step).q = DivMod(time, self.step).q
                            => generate(self, t) = out.res
            /\ IsOk(out.res) =>
                    /\ Len(out.res.val) = self.digits
                    /\ \A i \in 1..Len(out.res.val) :
                            out.res.val[i] \in {"0", "1", "2", "3", "4", "5", "6", "7", "8", "9"}

\* generate has returned, a second before the end of the first step, the code
\* of time 0, of an entity with 8 digits and a skew other than 1.
C3_SameStepSameCode ==
    /\ out.op = "generate"
    /\ IsOk(out.res)
    /\ out.self[1].step = 30
    /\ out.self[1].digits = 8
    /\ out.arg = U64(29)
    /\ out.res = generate(out.self[1], U64Zero)

\* C4: for every entity and every time t, next_step(t) is greater than t, is a
\* multiple of step, and is the smallest multiple of step greater than t.
C4_NextStepIsNextMultiple ==
    out.op = "next_step" =>
        LET self == out.self[1]
            t == out.arg
            v == out.res.val
        IN  /\ IsOk(out.res)
            /\ self.step > 0
            /\ U64Lt(t, v)
            /\ DivMod(v, self.step).r = 0
            /\ U64Le(SubSmall(v, self.step).v, t)

\* C5: a successful ttl() returns v with v + (now mod step) = step, hence
\* 1 <= v <= step, and v = step exactly when now is on a step boundary.
C5_TtlComplementsRemainder ==
    out.op = "ttl" /\ IsOk(out.res) =>
        LET self == out.self[1]
            now == out.arg.secs
            v == out.res.val
        IN  /\ self.step > 0
            /\ AddSmall(v, DivMod(now, self.step).r)
                    = [v |-> U64(self.step), overflow |-> FALSE]
            /\ U64Le(U64(1), v)
            /\ U64Le(v, U64(self.step))
            /\ (v = U64(self.step)) <=> (DivMod(now, self.step).r = 0)

\* ttl has returned 1, its least value, a second before the end of a step of 30.
C5_LastSecond ==
    /\ out.op = "ttl"
    /\ out.self[1].step = 30
    /\ out.arg.ok
    /\ out.arg.secs = U64(29)
    /\ out.res = Ok(U64(1))

\* C6: from_url(get_url(t)) succeeds and returns an entity with the secret, the
\* algorithm and the digits of t, a skew of 1 and a step of 30, whatever the skew
\* and the step of t.
C6_UrlRoundTrip ==
    out.op = "from_url" /\ IsSome(out.arg.origin) =>
        LET t == out.arg.origin[1]
        IN  /\ IsOk(out.res)
            /\ out.res.val.secret = t.secret
            /\ out.res.val.algorithm = t.algorithm
            /\ out.res.val.digits = t.digits
            /\ out.res.val.skew = 1
            /\ out.res.val.step = 30

\* from_url has read the URL of an entity with a plain account name and issuer,
\* 8 digits, SHA256, a skew of 0 and a step of 60.
C6_PlainLabelRead ==
    /\ out.op = "from_url"
    /\ IsSome(out.arg.origin)
    /\ out.arg.url = get_url(out.arg.origin[1])
    /\ out.arg.origin[1].account_name = <<"a", "b">>
    /\ out.arg.origin[1].issuer = Some(<<"G">>)
    /\ out.arg.origin[1].algorithm = "SHA256"
    /\ out.arg.origin[1].digits = 8
    /\ out.arg.origin[1].skew = 0
    /\ out.arg.origin[1].step = 60
    /\ IsOk(out.res)

\* C7: a == b if and only if a.secret and b.secret are the same bytes, whatever
\* the other fields; the relation is reflexive, symmetric and transitive.
C7_EqIsSecretEquality ==
    out.op = "eq" =>
        LET a == out.self[1]
            b == out.arg
        IN  /\ out.res = Ok(a.secret = b.secret)
            /\ TotpEq(a, a)
            /\ TotpEq(b, b)
            /\ TotpEq(b, a) = TotpEq(a, b)
            /\ \A c \in Others : TotpEq(a, b) /\ TotpEq(b, c) => TotpEq(a, c)

\* Two entities that differ in every field but the secret have compared equal.
C7_EqualAcrossFields ==
    /\ out.op = "eq"
    /\ out.res = Ok(TRUE)
    /\ out.self[1].algorithm # out.arg.algorithm
    /\ out.self[1].digits # out.arg.digits
    /\ out.self[1].skew # out.arg.skew
    /\ out.self[1].step # out.arg.step
    /\ out.self[1].account_name # out.arg.account_name
    /\ out.self[1].issuer # out.arg.issuer

\* C8: every entity a constructor has returned has a step above 0.
C8_StepPositive == IsSome(totp) => totp[1].step > 0

\* C9: for a URI that parses, has the scheme otpauth and a host other than totp,
\* or no host, from_url returns the Host error, which carries the host when
\* there is one.
C9_ForeignHostIsHostError ==
    out.op = "from_url" =>
        LET url == UrlParse(out.arg.url)
        IN  /\ IsOk(url)
            /\ url.val.scheme = <<"o", "t", "p", "a", "u", "t", "h">>
            /\ url.val.host # Some(<<"t", "o", "t", "p">>)
            => /\ IsErr(out.res, "Host")
               /\ IsSome(url.val.host) => out.res.val[2] = url.val.host[1]

\* C10: in from_url past the checks of scheme, host and label, when the label
\* carries an issuer and an issuer parameter differs from it, the call fails,
\* with IssuerMismatch(label issuer, query issuer) unless the label's account
\* name or another parameter is rejected; otherwise the call never fails with
\* IssuerMismatch, and the issuer of the entity is a query issuer when an
\* issuer parameter appears, the decoded label issuer when none does, None
\* when there is neither.
C10_IssuerResolution ==
    out.op = "from_url" =>
        LET url == UrlParse(out.arg.url)
            label == LabelOf(url.val)
            pairs == query_pairs(url.val)
            given ==
                {pairs[i].value :
                    i \in {j \in 1..Len(pairs) :
                            pairs[j].key = <<"i", "s", "s", "u", "e", "r">>}}
        IN  /\ IsOk(url)
            /\ url.val.scheme = <<"o", "t", "p", "a", "u", "t", "h">>
            /\ url.val.host = Some(<<"t", "o", "t", "p">>)
            /\ IsOk(label)
            => IF IsSome(label.val.issuer) /\ \E q \in given : q # label.val.issuer[1]
               THEN /\ ~IsOk(out.res)
                    /\ out.res.kind = "err"
                    /\ \/ \E q \in given :
                            /\ q # label.val.issuer[1]
                            /\ out.res = Err("IssuerMismatch", <<label.val.issuer[1], q>>)
                       \/ out.res.val[1] \in {"AccountName", "Algorithm", "Digits",
                                              "Step", "Secret"}
               ELSE /\ ~IsErr(out.res, "IssuerMismatch")
                    /\ IsOk(out.res) =>
                            IF given = {} THEN out.res.val.issuer = label.val.issuer
                            ELSE out.res.val.issuer \in {Some(q) : q \in given}

\* C11: an entity returned by from_url has skew 1; its algorithm, digits and
\* step are SHA1, 6 and 30 when the algorithm, digits or period parameter is
\* absent and the parsed value of the (last) parameter when it is present; and
\* a URL that differs only in pairs with other keys than algorithm, digits,
\* period, secret and issuer has the same outcome.
C11_UrlDefaultsAndParameters ==
    out.op = "from_url" =>
        LET url == UrlParse(out.arg.url)
            pairs == query_pairs(url.val)
            at(key) == {i \in 1..Len(pairs) : pairs[i].key = key}
            last(key) == pairs[Greatest(at(key))].value
            known(u) ==
                SelectSeq(query_pairs(u),
                          LAMBDA pair : pair.key \in {<<"a", "l", "g", "o", "r", "i", "t", "h", "m">>,
                                                 <<"d", "i", "g", "i", "t", "s">>,
                                                 <<"p", "e", "r", "i", "o", "d">>,
                                                 <<"s", "e", "c", "r", "e", "t">>,
                                                 <<"i", "s", "s", "u", "e", "r">>})
        IN  /\ IsOk(out.res) =>
                /\ out.res.val.skew = 1
                /\ IF at(<<"a", "l", "g", "o", "r", "i", "t", "h", "m">>) = {}
                   THEN out.res.val.algorithm = "SHA1"
                   ELSE AlgorithmName(out.res.val.algorithm)
                            = last(<<"a", "l", "g", "o", "r", "i", "t", "h", "m">>)
                /\ IF at(<<"d", "i", "g", "i", "t", "s">>) = {}
                   THEN out.res.val.digits = 6
                   ELSE Some(out.res.val.digits) = ParseUnsigned(last(<<"d", "i", "g", "i", "t", "s">>))
                /\ IF at(<<"p", "e", "r", "i", "o", "d">>) = {}
                   THEN out.res.val.step = 30
                   ELSE Some(out.res.val.step) = ParseUnsigned(last(<<"p", "e", "r", "i", "o", "d">>))
            /\ IsOk(url) =>
                \A input \in UrlInputs :
                    LET other == UrlParse(input)
                    IN  /\ IsOk(other)
                        /\ other.val.scheme = url.val.scheme
                        /\ other.val.host = url.val.host
                        /\ other.val.path = url.val.path
                        /\ known(other.val) = known(url.val)
                        => from_url(input) = out.res

\* from_url has returned an entity for a URL with an algorithm, a digits and a
\* period parameter and values other than the defaults.
C11_ParametersRead ==
    /\ out.op = "from_url"
    /\ IsOk(out.res)
    /\ out.res.val.algorithm = "SHA256"
    /\ out.res.val.digits = 8
    /\ out.res.val.step = 60
    /\ out.res.val.skew = 1

\* C12 (as stated): from_secret_base32(text) returns the Secret error carrying
\* text when text does not decode, and for every text that decodes an entity
\* with the decoded bytes as secret, SHA1, 6 digits, skew 1, step 30, an empty
\* account_name and no issuer; from_secret_base32(to_secret_base32(t)) has the
\* secret of t.
C12_Base32AlwaysConstructs ==
    out.op = "from_secret_base32" =>
        LET buffer == base32_decode(out.arg.text)
        IN  /\ IF ~IsSome(buffer) THEN out.res = Err("Secret", out.arg.text)
               ELSE out.res = Ok([algorithm |-> "SHA1", digits |-> 6, skew |-> 1,
                                  step |-> 30, secret |-> buffer[1],
                                  account_name |-> <<>>, issuer |-> None])
            /\ IsSome(out.arg.origin) =>
                    IsOk(out.res) /\ out.res.val.secret = out.arg.origin[1].secret

\* C12 (amended): as stated for a text that decodes to 16 bytes or more; a text
\* that decodes to fewer bytes gives the SecretTooSmall error of the
\* constructor, carrying the number of bits, and no entity.
C12_Base32ConstructsFrom16Bytes ==
    out.op = "from_secret_base32" =>
        LET buffer == base32_decode(out.arg.text)
        IN  /\ IF ~IsSome(buffer) THEN out.res = Err("Secret", out.arg.text)
               ELSE IF Len(buffer[1]) < 16
                    THEN out.res = Err("SecretTooSmall", 8 * Len(buffer[1])) /\ totp = None
               ELSE out.res = Ok([algorithm |-> "SHA1", digits |-> 6, skew |-> 1,
                                  step |-> 30, secret |-> buffer[1],
                                  account_name |-> <<>>, issuer |-> None])
            /\ IsSome(out.arg.origin) =>
                    IsOk(out.res) /\ out.res.val.secret = out.arg.origin[1].secret

\* from_secret_base32 has refused a text of 24 characters, which decodes to 15
\* bytes.
C12_DecodedTooSmall ==
    /\ out.op = "from_secret_base32"
    /\ Len(out.arg.text) = 24
    /\ out.res = Err("SecretTooSmall", 120)

\* C13: when the clock returns now, generate_current() is generate(now),
\* check_current(token) is check(token, now) and next_step_current() is
\* next_step(now); when the clock fails, generate_current, check_current,
\* next_step_current and ttl return the Time error.
C13_CurrentIsTimedAtNow ==
    /\ out.op = "generate_current" =>
            out.res = IF out.arg.ok THEN generate(out.self[1], out.arg.secs)
                      ELSE Err("Time", <<>>)
    /\ out.op = "next_step_current" =>
            out.res = IF out.arg.ok THEN next_step(out.self[1], out.arg.secs)
                      ELSE Err("Time", <<>>)
    /\ out.op = "check_current" =>
            out.res = IF out.arg.clock.ok
                      THEN check(out.self[1], out.arg.token, out.arg.clock.secs)
                      ELSE Err("Time", <<>>)
    /\ out.op = "ttl" /\ ~out.arg.ok => out.res = Err("Time", <<>>)

\* check_current has accepted, at the clock's 30 seconds, the code of time 0
\* of an entity with a step of 30 and a skew of 1.
C13_CurrentCheckAccepts ==
    /\ out.op = "check_current"
    /\ out.arg.clock.ok
    /\ out.arg.clock.secs = U64(30)
    /\ out.self[1].step = 30
    /\ out.self[1].skew = 1
    /\ out.arg.token = generate(out.self[1], U64Zero).val
    /\ out.res = Ok(TRUE)

\* C14: check(token, time) returns a boolean for every entity and every time:
\* time / step - skew does not go below zero, skew * 2 + 1 stays within 8 bits,
\* and basestep + i and (basestep + i) * step stay within 64 bits for every
\* candidate the loop computes.
C14_CheckArithmeticInRange ==
    out.op = "check" =>
        LET self == out.self[1]
            basestep == SubSmall(DivMod(out.arg.time, self.step).q, self.skew)
            sum(i) == AddSmall(basestep.v, i)
            step_time(i) == MulSmall(sum(i).v, self.step)
            hit(i) == generate(self, step_time(i).v).val = out.arg.token
            computed ==
                {i \in 0..((self.skew * 2) % 256) : \A j \in 0..(i - 1) : ~hit(j)}
        IN  /\ IsOk(out.res)
            /\ out.res.val \in BOOLEAN
            /\ self.step > 0
            /\ ~basestep.overflow
            /\ self.skew * 2 + 1 <= 255
            /\ \A i \in computed : ~sum(i).overflow /\ ~step_time(i).overflow

\* C15: from_url reports the first failure in this order: the URI syntax, the
\* scheme, the host, the decoding of the label's issuer, the decoding of the
\* account name, the query pairs in the order of the URI, the empty secret, and
\* only then the validation of the constructor.
C15_FirstFailureInOrder ==
    out.op = "from_url" =>
        LET url == UrlParse(out.arg.url)
            path == trim_start_matches(url.val.path, "/")
            labelled == Contains(path, ":")
            issuer == urlencoding_decode(Before(path, ":"))
            account ==
                IF labelled THEN trim_start_matches(After(path, ":")[1], ":") ELSE path
            pairs == query_pairs(url.val)
            keyed(key) == {i \in 1..Len(pairs) : pairs[i].key = key}
            issuers == keyed(<<"i", "s", "s", "u", "e", "r">>)
            secrets == keyed(<<"s", "e", "c", "r", "e", "t">>)
            \* The issuer every issuer parameter is held against.
            known == IF labelled THEN issuer.val ELSE pairs[Least(issuers)].value
            failure(i) ==
                IF i \in keyed(<<"a", "l", "g", "o", "r", "i", "t", "h", "m">>)
                    THEN IF \E a \in Algorithms : AlgorithmName(a) = pairs[i].value
                         THEN None ELSE Some(Err("Algorithm", pairs[i].value))
                ELSE IF i \in keyed(<<"d", "i", "g", "i", "t", "s">>)
                    THEN IF IsSome(ParseUnsigned(pairs[i].value))
                         THEN None ELSE Some(Err("Digits", pairs[i].value))
                ELSE IF i \in keyed(<<"p", "e", "r", "i", "o", "d">>)
                    THEN IF IsSome(ParseUnsigned(pairs[i].value))
                         THEN None ELSE Some(Err("Step", pairs[i].value))
                ELSE IF i \in secrets
                    THEN IF IsSome(base32_decode(pairs[i].value))
                         THEN None ELSE Some(Err("Secret", pairs[i].value))
                ELSE IF i \in issuers /\ pairs[i].value # known
                    THEN Some(Err("IssuerMismatch", <<known, pairs[i].value>>))
                ELSE None
            failing == {i \in 1..Len(pairs) : IsSome(failure(i))}
        IN  IF ~IsOk(url) THEN IsErr(out.res, "Url")
            ELSE IF url.val.scheme # <<"o", "t", "p", "a", "u", "t", "h">>
                THEN out.res = Err("Scheme", url.val.scheme)
            ELSE IF url.val.host # Some(<<"t", "o", "t", "p">>)
                THEN IsErr(out.res, "Host")
            ELSE IF labelled /\ ~IsOk(issuer)
                THEN out.res = Err("IssuerDecoding", Before(path, ":"))
            ELSE IF ~IsOk(urlencoding_decode(account))
                THEN out.res = Err("AccountName", account)
            ELSE IF failing # {}
                THEN out.res = failure(Least(failing))[1]
            ELSE IF secrets = {} \/ Len(base32_decode(pairs[Greatest(secrets)].value)[1]) = 0
                THEN out.res = Err("Secret", <<>>)
            ELSE \/ IsOk(out.res)
                 \/ \E e \in {"InvalidDigits", "SecretTooSmall", "AccountName", "Issuer"} :
                        IsErr(out.res, e)

\* C16: a code generate returns is the RFC 4226 dynamic truncation of the MAC of
\* the 8 big-endian bytes of time / step: with offset the low 4 bits of the
\* MAC's last byte, the 4 bytes at offset..offset+3, which lie inside the MAC,
\* read big-endian with the top bit cleared, modulo 10^digits, which fits in 32
\* bits, in decimal with exactly `digits` characters.
C16_GenerateIsDynamicTruncation ==
    out.op = "generate" /\ IsOk(out.res) =>
        LET self == out.self[1]
            counter == DivMod(out.arg, self.step).q
            mac == AlgorithmSign(self.algorithm, self.secret, counter)
            offset == mac[Len(mac)] % 16
            word == (mac[offset + 1] % 128) * (2 ^ 24) + mac[offset + 2] * (2 ^ 16)
                    + mac[offset + 3] * (2 ^ 8) + mac[offset + 4]
            code == out.res.val
            number[i \in 0..Len(code)] ==
                IF i = 0 THEN 0 ELSE number[i - 1] * 10 + DigitValue(code[i])
        IN  /\ Len(counter) = 8
            /\ Len(mac) \in {20, 32, 64}
            /\ offset + 4 <= Len(mac)
            /\ 10 ^ self.digits <= 2147483647
            /\ Len(code) = self.digits
            /\ \A i \in 1..Len(code) : IsDigitChar(code[i])
            /\ number[Len(code)] = word % (10 ^ self.digits)

\* generate has truncated a SHA1 MAC at the offset 15: the 4 bytes read are the
\* last 4 of the 20.
C16_LastWindow ==
    /\ out.op = "generate"
    /\ IsOk(out.res)
    /\ out.self[1].algorithm = "SHA1"
    /\ AlgorithmSign("SHA1", out.self[1].secret,
                     DivMod(out.arg, out.self[1].step).q)[20] % 16 = 15

====
